---- MODULE Spec2Model ----
(***************************************************************************)
(* The invoice generation and payment-reconciliation engine of the dairy   *)
(* backend: controllers/invoiceController.js (carried in                   *)
(* src/controllers/customerController.js from line 316) and the Invoice    *)
(* model (src/unnamed/part_004).                                           *)
(*                                                                         *)
(* Instants are counted in half days: 2 * (days since 1 January of the     *)
(* first clock year) for midnight of a day, one more for any later time of *)
(* that day.  Money and quantities are integer-valued numbers.             *)
(***************************************************************************)
EXTENDS Integers, Sequences, FiniteSets, TLC

VARIABLES
    invoices,   \* the Invoice collection: _id -> document
    nextId,     \* the next _id the store hands out (ids are never reused)
    records,    \* the Record collection: <<customer, date>> -> record
    clk,        \* position of the wall clock in Clock
    issued,     \* history: the invoice number given to each _id ever inserted
    calls       \* the generate calls in progress: where each stands between
                \* two of its awaits, and what it has read so far

vars == <<invoices, nextId, records, clk, issued, calls>>

----------------------------------------------------------------------------
(* Bounds of the model *)

\* invoices ever inserted
MaxInvoices == 2
\* payments ever recorded
MaxPayments == 2

----------------------------------------------------------------------------
(* Calendar: what JavaScript's Date computes *)

IsLeap(y) == (y % 4 = 0 /\ y % 100 # 0) \/ y % 400 = 0

DaysInMonth(y, m) ==
    IF m = 2 THEN (IF IsLeap(y) THEN 29 ELSE 28)
    ELSE IF m \in {4, 6, 9, 11} THEN 30 ELSE 31

\* the wall-clock instants the model samples, in order (all during the day)
Clock ==
    << [y |-> 2024, m |-> 1, d |-> 31],
       [y |-> 2024, m |-> 2, d |-> 20],
       [y |-> 2025, m |-> 1, d |-> 5] >>

RECURSIVE DaysBeforeMonth(_, _)
DaysBeforeMonth(y, m) ==
    IF m <= 1 THEN 0 ELSE DaysBeforeMonth(y, m - 1) + DaysInMonth(y, m - 1)

RECURSIVE DaysBeforeYear(_)
DaysBeforeYear(y) ==
    IF y <= Clock[1].y THEN 0
    ELSE DaysBeforeYear(y - 1) + (IF IsLeap(y - 1) THEN 366 ELSE 365)

\* new Date(y, m - 1, d): midnight of a day, m in 1..12
Midnight(y, m, d) == 2 * (DaysBeforeYear(y) + DaysBeforeMonth(y, m) + (d - 1))

\* new Date(): the current instant
Now == Midnight(Clock[clk].y, Clock[clk].m, Clock[clk].d) + 1

\* new Date(yearNum, monthNum - 1, 1)
PeriodStart(y, m) == Midnight(y, m, 1)

\* new Date(yearNum, monthNum, 0): midnight of the last day of the month
PeriodEnd(y, m) == Midnight(y, m, DaysInMonth(y, m))

\* a due date that counts the period's last day as the first of the 15
DueDateCountingEndDay(endDate) == endDate + 2 * 14

\* dueDate.setDate(dueDate.getDate() + 15)
DueDateOf(endDate) == endDate + 2 * 15

----------------------------------------------------------------------------
(* Collaborators: customers and delivery records *)

\* the Customer collection (customer management is outside the engine)
\* customer 3 has been deactivated and has no deliveries
Customer ==
    [c \in {1, 2, 3} |->
        [customerNo |-> 6 + c, isActive |-> c # 3]]

CustomerIds == DOMAIN Customer

\* ids a request may name; 4 names no customer
RequestCustomerIds == CustomerIds \cup {4}

\* a customer query without the isActive filter: Customer.find({})
AllCustomers == <<1, 2, 3>>

\* Customer.find({ isActive: true }), in the store's order
ActiveCustomers == SelectSeq(<<1, 2, 3>>, LAMBDA c : Customer[c].isActive)

NoRecord == [present |-> FALSE]

\* a day's delivery of quantity q
Delivery(q) ==
    [present |-> TRUE, morningQuantity |-> q, eveningQuantity |-> 0,
     totalQuantity |-> q, price |-> 2, totalAmount |-> 2 * q]

\* the (customer, date) pairs the Record collection may hold a record for
RecordKeys ==
    { <<1, Midnight(2024, 1, 31)>>, <<1, Midnight(2024, 2, 1)>>,
      <<2, Midnight(2024, 1, 31)>> }

\* the Record collection at the start (31 January): customer 2 has had its
\* delivery of the day
InitialRecords ==
    [k \in RecordKeys |->
        IF k = <<2, Midnight(2024, 1, 31)>> THEN Delivery(1) ELSE NoRecord]

\* the keys under which the daily scheduling creates a record when their day
\* comes
ScheduledKeys == { <<1, Midnight(2024, 2, 1)>> }

\* the keys whose record is corrected by hand once their day has begun
WritableKeys == { <<1, Midnight(2024, 1, 31)>> }

----------------------------------------------------------------------------
(* The Invoice model *)

StatusEnum == {"pending", "partially_paid", "paid", "overdue"}

\* a status rule that tests the due date before the amount paid
StatusRuleOverdueFirst(dueAmount, amountPaid, dueDate, now) ==
    IF dueAmount <= 0 THEN "paid"
    ELSE IF dueDate < now THEN "overdue"
    ELSE IF amountPaid > 0 THEN "partially_paid"
    ELSE "pending"

\* the pre('save') hook's status rule
StatusRule(dueAmount, amountPaid, dueDate, now) ==
    IF dueAmount <= 0 THEN "paid"
    ELSE IF amountPaid > 0 THEN "partially_paid"
    ELSE IF dueDate < now THEN "overdue"
    ELSE "pending"

\* a hook that derives the status but leaves dueAmount as it was handed
PreSaveStaleDue(doc, now) ==
    [doc EXCEPT !.status =
        StatusRule(doc.dueAmount, doc.amountPaid, doc.dueDate, now)]

\* a hook that recomputes dueAmount but keeps the status it was handed
PreSaveKeepsStatus(doc, now) ==
    [doc EXCEPT !.dueAmount = doc.totalAmount - doc.amountPaid]

\* a hook that tells the status from the balance and the due date alone
PreSaveIgnoresPaid(doc, now) ==
    LET due == doc.totalAmount - doc.amountPaid
    IN [doc EXCEPT !.dueAmount = due,
                   !.status = StatusRule(due, 0, doc.dueDate, now)]

\* invoiceSchema.pre('save')
PreSave(doc, now) ==
    LET due == doc.totalAmount - doc.amountPaid
    IN [doc EXCEPT !.dueAmount = due,
                   !.status = StatusRule(due, doc.amountPaid, doc.dueDate, now)]

\* schema validation of a document about to be saved: the enum of paymentMethod
Validates(doc) ==
    \A k \in 1..Len(doc.payments) :
        doc.payments[k].paymentMethod \in {"cash", "online"}

\* an invoiceNumber index that is not unique
NumberNeverTaken(store, number, self) == FALSE

\* the unique index on invoiceNumber
NumberTaken(store, number, self) ==
    \E i \in DOMAIN store : i # self /\ store[i].invoiceNumber = number

\* doc.save() of a loaded document: hook, then the write
SaveDoc(store, doc, now) ==
    LET d == PreSave(doc, now)
    IN [store EXCEPT ![doc.id] = d]

\* an addPayment that puts the new payment first (unshift for push)
AddPaymentFieldsUnshift(doc, paymentDetails) ==
    [doc EXCEPT !.payments = <<paymentDetails>> \o @,
                !.amountPaid = @ + paymentDetails.amount]

\* invoiceSchema.methods.addPayment, up to its save
AddPaymentFields(doc, paymentDetails) ==
    [doc EXCEPT !.payments = Append(@, paymentDetails),
                !.amountPaid = @ + paymentDetails.amount]

----------------------------------------------------------------------------
(* Invoice numbering *)

\* Invoice.findOne({}, {}, { sort: { createdAt: -1 } }): ids grow with createdAt
LatestInvoiceId(store) ==
    CHOOSE i \in DOMAIN store : \A j \in DOMAIN store : j <= i

\* parseInt(latestInvoice.invoiceNumber.split('-')[3])
CounterOf(number) == number[3]

\* generateInvoiceNumber: INV-YY-MM-NNNN as <<YY, MM, NNNN>>
GenerateInvoiceNumber(store, today) ==
    LET counter == IF DOMAIN store = {} THEN 1
                   ELSE CounterOf(store[LatestInvoiceId(store)].invoiceNumber) + 1
    IN <<today.y % 100, today.m, counter>>

----------------------------------------------------------------------------
(* Requests and responses *)

\* month and year of a request body; 0 stands for a missing (falsy) field,
\* 13 for a month out of range
RequestMonths == {0, 1, 2, 13}
RequestYears == {2024}

\* updateExisting of a request body, as JavaScript values
UpdateExistingValues == {"true", "false", "undefined", "null"}

\* const { updateExisting = false } = req.body
DefaultFalse(u) == IF u = "undefined" THEN "false" ELSE u

\* JavaScript truthiness of an updateExisting value
Truthy(u) == u = "true"

NoResp ==
    [op |-> "none", code |-> 0, msg |-> "", invoiceId |-> 0,
     invoiceNumber |-> <<>>, remaining |-> 0, totalProcessed |-> 0,
     created |-> <<>>, updated |-> <<>>, failed |-> <<>>]

Response(op, code, msg, invoiceId) ==
    [NoResp EXCEPT !.op = op, !.code = code, !.msg = msg,
                   !.invoiceId = invoiceId]

----------------------------------------------------------------------------
(* Invoice Aggregator and Lifecycle Manager *)

\* a current-month test that forgets the year
IsCurrentMonthOfAnyYear(today, year, month) == month = today.m

\* the temporal guard of both generate handlers
IsCurrentMonth(today, year, month) == month = today.m /\ year = today.y

GuardRefuses(today, year, month) ==
    /\ IsCurrentMonth(today, year, month)
    /\ today.d < DaysInMonth(year, month) - 2

\* an overlap test with the two bounds exchanged: it matches only an invoice
\* that lies within the period
OverlapsBoundsSwapped(doc, startDate, endDate) ==
    doc.startDate >= endDate /\ doc.endDate <= startDate

\* an overlap test that reaches one day past either end of the period
OverlapsNextDay(doc, startDate, endDate) ==
    doc.startDate <= endDate + 2 /\ doc.endDate >= startDate - 2

\* startDate: { $lte: endDate }, endDate: { $gte: startDate }
Overlaps(doc, startDate, endDate) ==
    doc.startDate <= endDate /\ doc.endDate >= startDate

\* Invoice.findOne({ customer, startDate <= end, endDate >= start }): the _id
\* of the first match in the store's order, 0 for null
ExistingInvoice(store, c, startDate, endDate) ==
    LET M == {i \in DOMAIN store :
                 store[i].customer = c /\ Overlaps(store[i], startDate, endDate)}
    IN IF M = {} THEN 0 ELSE CHOOSE i \in M : \A j \in M : i <= j

\* a record query sorted by descending date: sort({ date: -1 })
RecordDatesDescending(recs, c, startDate, endDate) ==
    LET D == {k[2] : k \in {k \in DOMAIN recs :
                 /\ k[1] = c /\ recs[k].present
                 /\ k[2] >= startDate /\ k[2] <= endDate}}
        F[n \in 0..Cardinality(D)] ==
            IF n = 0 THEN <<>>
            ELSE Append(F[n - 1],
                        CHOOSE d \in D : Cardinality({x \in D : x > d}) = n - 1)
    IN F[Cardinality(D)]

\* Record.find({ customer, date in [start, end] }).sort({ date: 1 }), as the
\* ascending sequence of the dates found
RecordDates(recs, c, startDate, endDate) ==
    LET D == {k[2] : k \in {k \in DOMAIN recs :
                 /\ k[1] = c /\ recs[k].present
                 /\ k[2] >= startDate /\ k[2] <= endDate}}
        F[n \in 0..Cardinality(D)] ==
            IF n = 0 THEN <<>>
            ELSE Append(F[n - 1],
                        CHOOSE d \in D : Cardinality({x \in D : x < d}) = n - 1)
    IN F[Cardinality(D)]

\* items.push({...}) of records.forEach
ItemsOf(recs, c, dates) ==
    [n \in 1..Len(dates) |->
        LET r == recs[<<c, dates[n]>>]
        IN [date |-> dates[n],
            morningQuantity |-> r.morningQuantity,
            eveningQuantity |-> r.eveningQuantity,
            dailyQuantity |-> r.totalQuantity,
            price |-> r.price,
            dailyAmount |-> r.totalAmount]]

\* totalQuantity += record.totalQuantity
RECURSIVE SumQuantity(_)
SumQuantity(items) ==
    IF items = <<>> THEN 0
    ELSE items[1].dailyQuantity + SumQuantity(Tail(items))

\* totalAmount += record.totalAmount
RECURSIVE SumAmount(_)
SumAmount(items) ==
    IF items = <<>> THEN 0
    ELSE items[1].dailyAmount + SumAmount(Tail(items))

\* an update branch that adds the new totals to the stored ones
RegenerateFieldsAccumulate(doc, items, endDate) ==
    [doc EXCEPT !.totalQuantity = @ + SumQuantity(items),
                !.totalAmount = @ + SumAmount(items),
                !.items = items,
                !.dueAmount = doc.totalAmount + SumAmount(items) - doc.amountPaid,
                !.endDate = endDate]

\* an update branch that also starts the paid amount afresh
RegenerateFieldsResetPaid(doc, items, endDate) ==
    [doc EXCEPT !.totalQuantity = SumQuantity(items),
                !.totalAmount = SumAmount(items),
                !.items = items,
                !.amountPaid = 0,
                !.dueAmount = SumAmount(items),
                !.endDate = endDate]

\* the "Update existing invoice" branch, up to its save
RegenerateFields(doc, items, endDate) ==
    [doc EXCEPT !.totalQuantity = SumQuantity(items),
                !.totalAmount = SumAmount(items),
                !.items = items,
                !.dueAmount = SumAmount(items) - doc.amountPaid,
                !.endDate = endDate]

\* the document Invoice.create builds, schema defaults filled in
NewInvoice(id, c, number, startDate, endDate, items) ==
    [id |-> id, customer |-> c, invoiceNumber |-> number,
     startDate |-> startDate, endDate |-> endDate,
     totalQuantity |-> SumQuantity(items), totalAmount |-> SumAmount(items),
     amountPaid |-> 0, dueAmount |-> SumAmount(items), status |-> "pending",
     dueDate |-> DueDateOf(endDate), items |-> items, payments |-> <<>>]

\* Invoice.create: hook, then the insert
InsertDoc(store, doc, now) ==
    LET d == PreSave(doc, now)
    IN [i \in DOMAIN store \cup {doc.id} |-> IF i = doc.id THEN d ELSE store[i]]

\* generateCustomerMonthlyInvoice as a function of the store: the store, the
\* next _id and the response it leaves
GenerateCustomer(store, nid, recs, today, now, id, month, year, updateExisting0) ==
    LET updateExisting == DefaultFalse(updateExisting0)
        op == "generateCustomer"
    IN
    IF month = 0 \/ year = 0 THEN
        [store |-> store, nid |-> nid, resp |-> Response(op, 400, "Month and year are required", 0)]
    ELSE IF GuardRefuses(today, year, month) THEN
        [store |-> store, nid |-> nid, resp |-> [Response(op, 400, "Cannot generate for the current month", 0)
                   EXCEPT !.remaining = DaysInMonth(year, month) - today.d]]
    ELSE IF month < 1 \/ month > 12 THEN
        [store |-> store, nid |-> nid, resp |-> Response(op, 400, "Invalid month", 0)]
    ELSE
    LET startDate == PeriodStart(year, month)
        endDate == PeriodEnd(year, month)
        existing == ExistingInvoice(store, id, startDate, endDate)
        dates == RecordDates(recs, id, startDate, endDate)
        items == ItemsOf(recs, id, dates)
        number == GenerateInvoiceNumber(store, today)
    IN
    IF existing # 0 /\ updateExisting = "false" THEN
        [store |-> store, nid |-> nid, resp |-> [Response(op, 400, "Invoice already exists for this period",
                            existing)
                   EXCEPT !.invoiceNumber = store[existing].invoiceNumber]]
    ELSE IF id \notin CustomerIds THEN
        [store |-> store, nid |-> nid, resp |-> Response(op, 404, "Customer not found", 0)]
    ELSE IF dates = <<>> THEN
        [store |-> store, nid |-> nid, resp |-> Response(op, 404, "No records found for this period", 0)]
    ELSE IF existing # 0 THEN
        [store |-> SaveDoc(store,
                           RegenerateFields(store[existing], items, endDate), now),
         nid |-> nid,
         resp |-> Response(op, 200, "", existing)]
    ELSE IF NumberTaken(store, number, nid) THEN
        [store |-> store, nid |-> nid, resp |-> Response(op, 500, "duplicate key", 0)]
    ELSE
        [store |-> InsertDoc(store,
                             NewInvoice(nid, id, number, startDate, endDate, items),
                             now),
         nid |-> nid + 1,
         resp |-> Response(op, 201, "", nid)]

\* a pass that updates an existing invoice before it looks at the number of
\* records found, and so empties the invoice of a customer without records
BatchCustomerUpdatesFirst(acc, recs, today, now, c, month, year, updateExisting) ==
    LET startDate == PeriodStart(year, month)
        endDate == PeriodEnd(year, month)
        existing == ExistingInvoice(acc.store, c, startDate, endDate)
        dates == RecordDates(recs, c, startDate, endDate)
        items == ItemsOf(recs, c, dates)
        number == GenerateInvoiceNumber(acc.store, today)
    IN
    IF existing # 0 /\ ~Truthy(updateExisting) THEN
        [acc EXCEPT !.failed =
            Append(@, [customer |-> c,
                       reason |-> "Invoice already exists for this period"])]
    ELSE IF existing # 0 /\ Truthy(updateExisting) THEN
        [acc EXCEPT
            !.store = SaveDoc(acc.store,
                              RegenerateFields(acc.store[existing], items, endDate),
                              now),
            !.updated = Append(@, [customer |-> c, invoiceId |-> existing])]
    ELSE IF dates = <<>> THEN
        [acc EXCEPT !.failed =
            Append(@, [customer |-> c,
                       reason |-> "No records found for this period"])]
    ELSE IF NumberTaken(acc.store, number, acc.nid) THEN
        [acc EXCEPT !.failed =
            Append(@, [customer |-> c, reason |-> "duplicate key"])]
    ELSE
        [acc EXCEPT
            !.store = InsertDoc(acc.store,
                                NewInvoice(acc.nid, c, number, startDate, endDate,
                                           items),
                                now),
            !.nid = @ + 1,
            !.created = Append(@, [customer |-> c, invoiceId |-> acc.nid])]

\* one pass of the batch loop's body for one customer; acc carries the store,
\* the next _id and the three result buckets
BatchCustomer(acc, recs, today, now, c, month, year, updateExisting) ==
    LET startDate == PeriodStart(year, month)
        endDate == PeriodEnd(year, month)
        existing == ExistingInvoice(acc.store, c, startDate, endDate)
        dates == RecordDates(recs, c, startDate, endDate)
        items == ItemsOf(recs, c, dates)
        number == GenerateInvoiceNumber(acc.store, today)
    IN
    IF existing # 0 /\ ~Truthy(updateExisting) THEN
        [acc EXCEPT !.failed =
            Append(@, [customer |-> c,
                       reason |-> "Invoice already exists for this period"])]
    ELSE IF dates = <<>> THEN
        [acc EXCEPT !.failed =
            Append(@, [customer |-> c,
                       reason |-> "No records found for this period"])]
    ELSE IF existing # 0 /\ Truthy(updateExisting) THEN
        [acc EXCEPT
            !.store = SaveDoc(acc.store,
                              RegenerateFields(acc.store[existing], items, endDate),
                              now),
            !.updated = Append(@, [customer |-> c, invoiceId |-> existing])]
    ELSE IF NumberTaken(acc.store, number, acc.nid) THEN
        [acc EXCEPT !.failed =
            Append(@, [customer |-> c, reason |-> "duplicate key"])]
    ELSE
        [acc EXCEPT
            !.store = InsertDoc(acc.store,
                                NewInvoice(acc.nid, c, number, startDate, endDate,
                                           items),
                                now),
            !.nid = @ + 1,
            !.created = Append(@, [customer |-> c, invoiceId |-> acc.nid])]

\* for (const customer of customers) { ... }
RECURSIVE BatchLoop(_, _, _, _, _, _, _, _)
BatchLoop(acc, customers, recs, today, now, month, year, updateExisting) ==
    IF customers = <<>> THEN acc
    ELSE BatchLoop(
            BatchCustomer(acc, recs, today, now, customers[1], month, year,
                          updateExisting),
            Tail(customers), recs, today, now, month, year, updateExisting)

\* a batch handler whose guard is tested only after the customers were
\* processed
GenerateBatchGuardLast(store, nid, recs, today, now, month, year, updateExisting0) ==
    LET updateExisting == DefaultFalse(updateExisting0)
        op == "generateBatch"
    IN
    IF month = 0 \/ year = 0 THEN
        [store |-> store, nid |-> nid, resp |-> Response(op, 400, "Month and year are required", 0)]
    ELSE IF month < 1 \/ month > 12 THEN
        [store |-> store, nid |-> nid, resp |-> Response(op, 400, "Invalid month", 0)]
    ELSE
    LET out == BatchLoop([store |-> store, nid |-> nid, created |-> <<>>,
                          updated |-> <<>>, failed |-> <<>>],
                         ActiveCustomers, recs, today, now, month, year,
                         updateExisting)
    IN
    IF GuardRefuses(today, year, month) THEN
        [store |-> out.store, nid |-> out.nid,
         resp |-> [Response(op, 400, "Cannot generate for the current month", 0)
                   EXCEPT !.remaining = DaysInMonth(year, month) - today.d]]
    ELSE
        [store |-> out.store, nid |-> out.nid,
         resp |-> [Response(op, 200, "", 0)
                   EXCEPT !.totalProcessed = Len(ActiveCustomers),
                          !.created = out.created, !.updated = out.updated,
                          !.failed = out.failed]]

\* generateBatchMonthlyInvoices as a function of the store
GenerateBatch(store, nid, recs, today, now, month, year, updateExisting0) ==
    LET updateExisting == DefaultFalse(updateExisting0)
        op == "generateBatch"
    IN
    IF month = 0 \/ year = 0 THEN
        [store |-> store, nid |-> nid, resp |-> Response(op, 400, "Month and year are required", 0)]
    ELSE IF GuardRefuses(today, year, month) THEN
        [store |-> store, nid |-> nid, resp |-> [Response(op, 400, "Cannot generate for the current month", 0)
                   EXCEPT !.remaining = DaysInMonth(year, month) - today.d]]
    ELSE IF month < 1 \/ month > 12 THEN
        [store |-> store, nid |-> nid, resp |-> Response(op, 400, "Invalid month", 0)]
    ELSE
    LET out == BatchLoop([store |-> store, nid |-> nid, created |-> <<>>,
                          updated |-> <<>>, failed |-> <<>>],
                         ActiveCustomers, recs, today, now, month, year,
                         updateExisting)
    IN [store |-> out.store, nid |-> out.nid,
        resp |-> [Response(op, 200, "", 0)
                  EXCEPT !.totalProcessed = Len(ActiveCustomers),
                         !.created = out.created, !.updated = out.updated,
                         !.failed = out.failed]]

----------------------------------------------------------------------------
(* Payment Ledger *)

\* transaction ids are kept as the parts split('_') yields: a numeric part is a
\* number, any other part a string; the empty sequence is an absent id
NoTransactionId == <<>>

\* paymentMethod and transactionId of the payment requests: each method on its
\* own ("undefined" is an omitted field, "card" is outside the schema's enum),
\* and one request that supplies an id of the shape of customer 7's generated
\* ids
PaymentRequests ==
    {[paymentMethod |-> m, transactionId |-> NoTransactionId] :
        m \in {"cash", "online", "undefined", "card"}}
    \cup {[paymentMethod |-> "online", transactionId |-> <<2024, 7, 2>>]}

\* `${year}_${customerNo}_${newSequence}`
FormatTransactionId(year, customerNo, sequence) == <<year, customerNo, sequence>>

\* payment.transactionId && payment.transactionId.startsWith(`${year}_${customerNo}_`)
HasPrefix(transactionId, year, customerNo) ==
    /\ Len(transactionId) >= 3
    /\ transactionId[1] = year
    /\ transactionId[2] = customerNo

\* parseInt(parts[2]), -1 for NaN
SequenceOf(transactionId) ==
    IF transactionId[3] \in Nat THEN transactionId[3] ELSE -1

\* the sequences of the customer's payments that carry the prefix
PrefixSequences(store, c, year, customerNo) ==
    UNION {
        {SequenceOf(store[i].payments[k].transactionId) :
            k \in {k \in 1..Len(store[i].payments) :
                      HasPrefix(store[i].payments[k].transactionId,
                                year, customerNo)}} :
        i \in {i \in DOMAIN store : store[i].customer = c}}

\* the scan over allInvoices: the largest sequence found, 0 when none
MaxSequence(store, c, year, customerNo) ==
    LET S == PrefixSequences(store, c, year, customerNo) \cup {0}
    IN CHOOSE n \in S : \A k \in S : k <= n

\* a finalTransactionId that scans the payments of the paid invoice only
FinalTransactionIdOwnInvoice(store, doc, today, paymentMethod, transactionId) ==
    IF transactionId = NoTransactionId /\ paymentMethod # "cash"
    THEN FormatTransactionId(
            today.y, Customer[doc.customer].customerNo,
            MaxSequence([i \in {doc.id} |-> store[i]], doc.customer, today.y,
                        Customer[doc.customer].customerNo) + 1)
    ELSE transactionId

\* finalTransactionId
FinalTransactionId(store, doc, today, paymentMethod, transactionId) ==
    IF transactionId = NoTransactionId /\ paymentMethod # "cash"
    THEN FormatTransactionId(
            today.y, Customer[doc.customer].customerNo,
            MaxSequence(store, doc.customer, today.y,
                        Customer[doc.customer].customerNo) + 1)
    ELSE transactionId

\* !amount || amount <= 0
AmountInvalid(amount) == amount = 0 \/ amount <= 0

\* a limit test against the invoice's total instead of what is still due
ExceedsTotal(amount, doc) == amount > doc.totalAmount

\* a limit test that also refuses a payment of exactly what is due
ReachesDue(amount, doc) == amount >= doc.dueAmount

\* amount > invoice.dueAmount
ExceedsDue(amount, doc) == amount > doc.dueAmount

\* paymentMethod || 'cash'
StoredMethod(paymentMethod) ==
    IF paymentMethod = "undefined" THEN "cash" ELSE paymentMethod

\* addPaymentToInvoice as a function of the store
AddPayment(store, today, now, id, amount, paymentMethod, transactionId) ==
    LET op == "addPayment" IN
    IF AmountInvalid(amount) THEN
        [store |-> store,
         resp |-> Response(op, 400, "Valid payment amount is required", 0)]
    ELSE IF id \notin DOMAIN store THEN
        [store |-> store, resp |-> Response(op, 404, "Invoice not found", 0)]
    ELSE IF ExceedsDue(amount, store[id]) THEN
        [store |-> store,
         resp |-> Response(op, 400, "Payment amount exceeds due amount", id)]
    ELSE
    LET payment ==
            [amount |-> amount,
             paymentMethod |-> StoredMethod(paymentMethod),
             transactionId |->
                 FinalTransactionId(store, store[id], today, paymentMethod,
                                    transactionId)]
        doc == AddPaymentFields(store[id], payment)
    IN
    IF ~Validates(doc) THEN
        [store |-> store, resp |-> Response(op, 500, "validation failed", id)]
    ELSE
        [store |-> SaveDoc(store, doc, now), resp |-> Response(op, 200, "", id)]

----------------------------------------------------------------------------
(* Status update and deletion *)

\* updateInvoiceStatus as a function of the store
UpdateStatus(store, now, id, status) ==
    LET op == "updateStatus" IN
    IF status \notin StatusEnum THEN
        [store |-> store, resp |-> Response(op, 400, "Invalid status", 0)]
    ELSE IF id \notin DOMAIN store THEN
        [store |-> store, resp |-> Response(op, 404, "Invoice not found", 0)]
    ELSE
        [store |-> SaveDoc(store, [store[id] EXCEPT !.status = status], now),
         resp |-> Response(op, 200, "", id)]

\* a deleteInvoice that refuses by the status, not by the payments
DeleteUnlessPaid(store, id) ==
    LET op == "deleteInvoice" IN
    IF id \notin DOMAIN store THEN
        [store |-> store, resp |-> Response(op, 404, "Invoice not found", 0)]
    ELSE IF store[id].status = "paid" THEN
        [store |-> store,
         resp |-> Response(op, 400, "Cannot delete invoice that has payments", id)]
    ELSE
        [store |-> [i \in DOMAIN store \ {id} |-> store[i]],
         resp |-> Response(op, 200, "Invoice removed", id)]

\* deleteInvoice as a function of the store
Delete(store, id) ==
    LET op == "deleteInvoice" IN
    IF id \notin DOMAIN store THEN
        [store |-> store, resp |-> Response(op, 404, "Invoice not found", 0)]
    ELSE IF Len(store[id].payments) > 0 THEN
        [store |-> store,
         resp |-> Response(op, 400, "Cannot delete invoice that has payments", id)]
    ELSE
        [store |-> [i \in DOMAIN store \ {id} |-> store[i]],
         resp |-> Response(op, 200, "Invoice removed", id)]

----------------------------------------------------------------------------
(* The state machine: one request at a time *)

\* payments recorded in the store (an invoice with payments is never deleted)
RECURSIVE PaymentCountOf(_, _)
PaymentCountOf(store, ids) ==
    IF ids = {} THEN 0
    ELSE LET i == CHOOSE i \in ids : TRUE
         IN Len(store[i].payments) + PaymentCountOf(store, ids \ {i})

PaymentCount(store) == PaymentCountOf(store, DOMAIN store)

\* amounts a payment request may carry
RequestAmounts == {-1, 0, 1, 3}

\* status values a request may carry; "void" is outside the enum
RequestStatuses == StatusEnum \cup {"void"}

InvoiceIds == 1..MaxInvoices

\* the slots for generate calls served at the same time
Calls == {1, 2}

\* a slot with no call in progress
Idle ==
    [pc |-> "idle", kind |-> "", queue |-> <<>>, month |-> 0, year |-> 0,
     updateExisting |-> "", loaded |-> <<>>, items |-> <<>>, number |-> <<>>,
     amount |-> 0, paymentMethod |-> "", transactionId |-> <<>>]

\* the numbers issued so far, with those of the _ids inserted into store since
IssuedAfter(store, nid) ==
    [i \in 1..(nid - 1) |->
        IF i < nextId THEN issued[i] ELSE store[i].invoiceNumber]

Init ==
    /\ invoices = <<>>
    /\ nextId = 1
    /\ records = InitialRecords
    /\ clk = 1
    /\ issued = <<>>
    /\ calls = [p \in Calls |-> Idle]

\* time passes; the daily scheduling has created the records of the days gone by
Tick ==
    /\ clk < Len(Clock)
    /\ clk' = clk + 1
    /\ records' =
          [k \in RecordKeys |->
              IF k \in ScheduledKeys /\ ~records[k].present
                 /\ k[2] <= Midnight(Clock[clk + 1].y, Clock[clk + 1].m,
                                     Clock[clk + 1].d) + 1
              THEN Delivery(1) ELSE records[k]]
    /\ UNCHANGED <<invoices, nextId, issued, calls>>

\* a delivery record of a day that has begun is written, corrected or removed
WriteRecord ==
    \E k \in WritableKeys, r \in {NoRecord, Delivery(0), Delivery(1)} :
        /\ k[2] <= Now
        /\ records[k] # r
        /\ records' = [records EXCEPT ![k] = r]
        /\ UNCHANGED <<invoices, nextId, clk, issued, calls>>

\* POST /generate/customer/:id
GenerateCustomerMonthlyInvoice ==
    \E id \in RequestCustomerIds, month \in RequestMonths, year \in RequestYears,
       updateExisting \in UpdateExistingValues :
        \E out \in {GenerateCustomer(invoices, nextId, records, Clock[clk], Now,
                                    id, month, year, updateExisting)} :
           /\ out.nid <= MaxInvoices + 1
           /\ invoices' = out.store
           /\ nextId' = out.nid
           /\ issued' = IssuedAfter(out.store, out.nid)
           /\ UNCHANGED <<records, clk, calls>>

\* POST /generate/batch
GenerateBatchMonthlyInvoices ==
    \E month \in RequestMonths, year \in RequestYears,
       updateExisting \in UpdateExistingValues :
        \E out \in {GenerateBatch(invoices, nextId, records, Clock[clk], Now,
                                 month, year, updateExisting)} :
           /\ out.nid <= MaxInvoices + 1
           /\ invoices' = out.store
           /\ nextId' = out.nid
           /\ issued' = IssuedAfter(out.store, out.nid)
           /\ UNCHANGED <<records, clk, calls>>

\* PUT /:id/status
UpdateInvoiceStatus ==
    \E id \in InvoiceIds, status \in RequestStatuses :
        \E out \in {UpdateStatus(invoices, Now, id, status)} :
           /\ invoices' = out.store
           /\ UNCHANGED <<nextId, records, clk, issued, calls>>

\* POST /:id/payment
AddPaymentToInvoice ==
    \E id \in InvoiceIds, amount \in RequestAmounts, req \in PaymentRequests :
        \E out \in {AddPayment(invoices, Clock[clk], Now, id, amount,
                              req.paymentMethod, req.transactionId)} :
           /\ PaymentCount(out.store) <= MaxPayments
           /\ invoices' = out.store
           /\ UNCHANGED <<nextId, records, clk, issued, calls>>

\* DELETE /:id
DeleteInvoice ==
    \E id \in InvoiceIds :
        \E out \in {Delete(invoices, id)} :
           /\ invoices' = out.store
           /\ UNCHANGED <<nextId, records, clk, issued, calls>>

Next ==
    \/ Tick
    \/ WriteRecord
    \/ GenerateCustomerMonthlyInvoice
    \/ GenerateBatchMonthlyInvoices
    \/ UpdateInvoiceStatus
    \/ AddPaymentToInvoice
    \/ DeleteInvoice

Spec == Init /\ [][Next]_vars

----------------------------------------------------------------------------
(* Generate calls that interleave at their awaits *)

\* a create that also fails on the compound index, as if it were unique
CreateFailsOnPeriod(store, doc) ==
    \/ NumberTaken(store, doc.invoiceNumber, doc.id)
    \/ \E i \in DOMAIN store :
          /\ store[i].customer = doc.customer
          /\ store[i].startDate = doc.startDate
          /\ store[i].endDate = doc.endDate

\* what lets Invoice.create fail: the unique index on invoiceNumber (the
\* compound index on customer, startDate, endDate is not unique)
CreateFails(store, doc) == NumberTaken(store, doc.invoiceNumber, doc.id)

\* document.save() of a document loaded earlier: the paths whose value differs
\* from the loaded one are written onto the stored document
MergeModified(current, loaded, new) ==
    [f \in DOMAIN current |-> IF new[f] # loaded[f] THEN new[f] ELSE current[f]]

\* the call after the pass for the customer at the head of its queue: a
\* single-customer call has answered, a batch goes on to its next customer
EndPass(call) ==
    IF call.kind = "single" \/ Len(call.queue) <= 1 THEN Idle
    ELSE [call EXCEPT !.pc = "find", !.queue = Tail(@), !.loaded = <<>>,
                      !.items = <<>>, !.number = <<>>]

\* generateCustomerMonthlyInvoice up to its first await: the request has
\* passed the presence test, the guard and the month test
CallGenerateCustomer ==
    \E p \in Calls, id \in RequestCustomerIds, month \in RequestMonths,
       year \in RequestYears, updateExisting \in UpdateExistingValues :
        /\ calls[p].pc = "idle"
        /\ month \in 1..12
        /\ ~GuardRefuses(Clock[clk], year, month)
        /\ calls' = [calls EXCEPT ![p] =
              [Idle EXCEPT !.pc = "find", !.kind = "single", !.queue = <<id>>,
                           !.month = month, !.year = year,
                           !.updateExisting =
                               IF DefaultFalse(updateExisting) = "false"
                               THEN "false" ELSE "true"]]
        /\ UNCHANGED <<invoices, nextId, records, clk, issued>>

\* generateBatchMonthlyInvoices up to the start of its loop
CallGenerateBatch ==
    \E p \in Calls, month \in RequestMonths, year \in RequestYears,
       updateExisting \in UpdateExistingValues :
        /\ calls[p].pc = "idle"
        /\ month \in 1..12
        /\ ~GuardRefuses(Clock[clk], year, month)
        /\ calls' = [calls EXCEPT ![p] =
              [Idle EXCEPT !.pc = "find", !.kind = "batch",
                           !.queue = ActiveCustomers,
                           !.month = month, !.year = year,
                           !.updateExisting =
                               IF Truthy(DefaultFalse(updateExisting))
                               THEN "true" ELSE "false"]]
        /\ UNCHANGED <<invoices, nextId, records, clk, issued>>

\* await Invoice.findOne(overlap), Customer.findById, await Record.find: the
\* reads of one pass, and the branch they select
FindExisting ==
    \E p \in Calls :
        LET call == calls[p]
            c == Head(call.queue)
            startDate == PeriodStart(call.year, call.month)
            endDate == PeriodEnd(call.year, call.month)
            existing == ExistingInvoice(invoices, c, startDate, endDate)
            dates == RecordDates(records, c, startDate, endDate)
        IN
        /\ call.pc = "find"
        /\ calls' = [calls EXCEPT ![p] =
              IF existing # 0 /\ call.updateExisting = "false" THEN EndPass(call)
              ELSE IF c \notin CustomerIds THEN EndPass(call)
              ELSE IF dates = <<>> THEN EndPass(call)
              ELSE IF existing # 0
              THEN [call EXCEPT !.pc = "save", !.loaded = invoices[existing],
                                !.items = ItemsOf(records, c, dates)]
              ELSE [call EXCEPT !.pc = "number",
                                !.items = ItemsOf(records, c, dates)]]
        /\ UNCHANGED <<invoices, nextId, records, clk, issued>>

\* await generateInvoiceNumber(): the read of the latest invoice
ReadLatestInvoice ==
    \E p \in Calls :
        /\ calls[p].pc = "number"
        /\ calls' = [calls EXCEPT ![p] =
              [@ EXCEPT !.pc = "insert",
                        !.number = GenerateInvoiceNumber(invoices, Clock[clk])]]
        /\ UNCHANGED <<invoices, nextId, records, clk, issued>>

\* await Invoice.create({...}) with the number read before
CreateInvoice ==
    \E p \in Calls :
        LET call == calls[p]
            doc == NewInvoice(nextId, Head(call.queue), call.number,
                              PeriodStart(call.year, call.month),
                              PeriodEnd(call.year, call.month), call.items)
        IN
        /\ call.pc = "insert"
        /\ calls' = [calls EXCEPT ![p] = EndPass(call)]
        /\ IF CreateFails(invoices, doc)
           THEN UNCHANGED <<invoices, nextId, issued>>
           ELSE /\ nextId <= MaxInvoices
                /\ invoices' = InsertDoc(invoices, doc, Now)
                /\ nextId' = nextId + 1
                /\ issued' = Append(issued, call.number)
        /\ UNCHANGED <<records, clk>>

\* await existingInvoice.save() of the update branch.  The document may have
\* been deleted since it was loaded (nothing is written), or written by
\* another call: then the save either writes its modified paths or fails on
\* the document's version, depending on the paths the other call wrote.  The
\* save sets the items array, so it tests the version it loaded, and a
\* payment pushed since has raised the version: then it fails
SaveExisting ==
    \E p \in Calls, versionError \in BOOLEAN :
        LET call == calls[p]
            id == call.loaded.id
            new == PreSave(RegenerateFields(call.loaded, call.items,
                                            PeriodEnd(call.year, call.month)),
                           Now)
        IN
        /\ call.pc = "save"
        /\ calls' = [calls EXCEPT ![p] = EndPass(call)]
        /\ versionError => id \in DOMAIN invoices /\ invoices[id] # call.loaded
        /\ (id \in DOMAIN invoices
            /\ invoices[id].payments # call.loaded.payments) => versionError
        /\ invoices' =
              IF id \in DOMAIN invoices /\ ~versionError
              THEN [invoices EXCEPT
                      ![id] = MergeModified(@, call.loaded, new)]
              ELSE invoices
        /\ UNCHANGED <<nextId, records, clk, issued>>

\* 31 January, once the day's deliveries of both customers are recorded
InitConc ==
    /\ invoices = <<>>
    /\ nextId = 1
    /\ records = [InitialRecords EXCEPT ![<<1, Midnight(2024, 1, 31)>>] =
                                            Delivery(1)]
    /\ clk = 1
    /\ issued = <<>>
    /\ calls = [p \in Calls |-> Idle]

NextConc ==
    \/ DeleteInvoice
    \/ CallGenerateCustomer
    \/ CallGenerateBatch
    \/ FindExisting
    \/ ReadLatestInvoice
    \/ CreateInvoice
    \/ SaveExisting

SpecConc == InitConc /\ [][NextConc]_vars

----------------------------------------------------------------------------
(* Payment calls that interleave with each other and with generate calls *)

\* a save that a unique transaction id would refuse: when the stored payments
\* already hold the id of the new one, nothing is written
PushPaymentUnlessTaken(current, loaded, new) ==
    IF \E k \in 1..Len(current.payments) :
          /\ current.payments[k].transactionId # NoTransactionId
          /\ current.payments[k].transactionId
                = new.payments[Len(new.payments)].transactionId
    THEN current
    ELSE [MergeModified(current, loaded, new) EXCEPT
            !.payments = Append(current.payments,
                                new.payments[Len(new.payments)])]

\* the update document.save() sends for a document on which addPayment has
\* run: the payment is pushed onto the stored array, every other path whose
\* value differs from the loaded one is set
PushPayment(current, loaded, new) ==
    [MergeModified(current, loaded, new) EXCEPT
        !.payments = Append(current.payments, new.payments[Len(new.payments)])]

\* addPaymentToInvoice up to the answer of Invoice.findById: the amount test,
\* the load, the test against the loaded dueAmount, and whether an id is to
\* be generated
LoadInvoice ==
    \E p \in Calls, id \in InvoiceIds, amount \in RequestAmounts,
       req \in PaymentRequests :
        /\ calls[p].pc = "idle"
        /\ ~AmountInvalid(amount)
        /\ id \in DOMAIN invoices
        /\ ~ExceedsDue(amount, invoices[id])
        /\ calls' = [calls EXCEPT ![p] =
              [Idle EXCEPT
                 !.pc = IF req.transactionId = NoTransactionId
                           /\ req.paymentMethod # "cash"
                        THEN "scan" ELSE "push",
                 !.kind = "payment", !.loaded = invoices[id],
                 !.amount = amount, !.paymentMethod = req.paymentMethod,
                 !.transactionId = req.transactionId]]
        /\ UNCHANGED <<invoices, nextId, records, clk, issued>>

\* await Invoice.find({ customer }): the scan that yields the generated id
ScanPayments ==
    \E p \in Calls :
        LET call == calls[p] IN
        /\ call.pc = "scan"
        /\ calls' = [calls EXCEPT ![p] =
              [call EXCEPT
                 !.pc = "push",
                 !.transactionId =
                     FinalTransactionId(invoices, call.loaded, Clock[clk],
                                        call.paymentMethod, call.transactionId)]]
        /\ UNCHANGED <<invoices, nextId, records, clk, issued>>

\* await invoice.addPayment(payment): push, add to amountPaid, save.  A
\* payment outside the schema fails validation; a document deleted since it
\* was loaded is not written
SavePayment ==
    \E p \in Calls :
        LET call == calls[p]
            id == call.loaded.id
            payment == [amount |-> call.amount,
                        paymentMethod |-> StoredMethod(call.paymentMethod),
                        transactionId |-> call.transactionId]
            doc == AddPaymentFields(call.loaded, payment)
        IN
        /\ call.pc = "push"
        /\ calls' = [calls EXCEPT ![p] = Idle]
        /\ IF Validates(doc) /\ id \in DOMAIN invoices
           THEN /\ PaymentCount(invoices) < MaxPayments
                /\ invoices' =
                      [invoices EXCEPT
                          ![id] = PushPayment(@, call.loaded, PreSave(doc, Now))]
           ELSE UNCHANGED invoices
        /\ UNCHANGED <<nextId, records, clk, issued>>

\* generateCustomerMonthlyInvoice with updateExisting true, from the request
\* to the answers of Invoice.findOne and Record.find, when they select the
\* update branch
LoadExisting ==
    \E p \in Calls, id \in CustomerIds, month \in RequestMonths,
       year \in RequestYears :
        LET startDate == PeriodStart(year, month)
            endDate == PeriodEnd(year, month)
            existing == ExistingInvoice(invoices, id, startDate, endDate)
            dates == RecordDates(records, id, startDate, endDate)
        IN
        /\ calls[p].pc = "idle"
        /\ month \in 1..12
        /\ ~GuardRefuses(Clock[clk], year, month)
        /\ existing # 0
        /\ dates # <<>>
        /\ calls' = [calls EXCEPT ![p] =
              [Idle EXCEPT !.pc = "save", !.kind = "single", !.queue = <<id>>,
                           !.month = month, !.year = year,
                           !.updateExisting = "true",
                           !.loaded = invoices[existing],
                           !.items = ItemsOf(records, id, dates)]]
        /\ UNCHANGED <<invoices, nextId, records, clk, issued>>

\* 31 January, once the January invoice of customer 1 has been generated
InitPay ==
    /\ records = [InitialRecords EXCEPT ![<<1, Midnight(2024, 1, 31)>>] =
                                            Delivery(1)]
    /\ clk = 1
    /\ \E out \in {GenerateCustomer(<<>>, 1, records, Clock[clk], Now, 1, 1,
                                    2024, "false")} :
          /\ invoices = out.store
          /\ nextId = out.nid
          /\ issued = [i \in DOMAIN out.store |-> out.store[i].invoiceNumber]
    /\ calls = [p \in Calls |-> Idle]

NextPay ==
    \/ WriteRecord
    \/ LoadExisting
    \/ SaveExisting
    \/ LoadInvoice
    \/ ScanPayments
    \/ SavePayment

SpecPay == InitPay /\ [][NextPay]_vars

----------------------------------------------------------------------------
(* Generation over the delivery records of two months *)

\* the days of January and February 2024 a record may exist for: the first
\* and the last day of each month for customer 1, one day for customer 2
AggregateKeys ==
    { <<1, Midnight(2024, 1, 1)>>, <<1, Midnight(2024, 1, 31)>>,
      <<1, Midnight(2024, 2, 1)>>, <<1, Midnight(2024, 2, 29)>>,
      <<2, Midnight(2024, 1, 31)>> }

\* 5 January 2025: the deliveries of the two months are on record, no invoice
\* has been generated yet
InitAggregate ==
    /\ invoices = <<>>
    /\ nextId = 1
    /\ records \in [AggregateKeys -> {NoRecord, Delivery(1), Delivery(2)}]
    /\ clk = Len(Clock)
    /\ issued = <<>>
    /\ calls = [p \in Calls |-> Idle]

NextAggregate ==
    \/ GenerateCustomerMonthlyInvoice
    \/ GenerateBatchMonthlyInvoices

SpecAggregate == InitAggregate /\ [][NextAggregate]_vars

----------------------------------------------------------------------------
(* What the handlers would answer in the current state *)

GenerateCustomerNow(id, month, year, updateExisting) ==
    GenerateCustomer(invoices, nextId, records, Clock[clk], Now,
                     id, month, year, updateExisting)

GenerateBatchNow(month, year, updateExisting) ==
    GenerateBatch(invoices, nextId, records, Clock[clk], Now,
                  month, year, updateExisting)

AddPaymentNow(id, amount, req) ==
    AddPayment(invoices, Clock[clk], Now, id, amount,
               req.paymentMethod, req.transactionId)

UpdateStatusNow(id, status) == UpdateStatus(invoices, Now, id, status)

\* the invoices a batch response reports as created or updated
BatchPersisted(r) ==
    {r.created[k].invoiceId : k \in 1..Len(r.created)}
    \cup {r.updated[k].invoiceId : k \in 1..Len(r.updated)}

\* the 4-way rule holds of a document at the current instant
RuleHolds(doc) ==
    doc.status =
        (IF doc.dueAmount <= 0 THEN "paid"
         ELSE IF doc.amountPaid > 0 THEN "partially_paid"
         ELSE IF doc.dueDate < Now THEN "overdue"
         ELSE "pending")

----------------------------------------------------------------------------
(* C1 *)

\* C1: after every generate (single or batch, create or update), add-payment
\* and status update, every stored invoice has
\* dueAmount = totalAmount - amountPaid.
C1_DueIsTotalMinusPaid ==
    \A i \in DOMAIN invoices :
        invoices[i].dueAmount = invoices[i].totalAmount - invoices[i].amountPaid

\* an invoice that took a payment and was then regenerated to a lower total
C1_Witness ==
    \E i \in DOMAIN invoices :
        /\ Len(invoices[i].payments) > 0
        /\ invoices[i].totalAmount < invoices[i].amountPaid
        /\ invoices[i].dueAmount < 0

----------------------------------------------------------------------------
(* C2 *)

\* C2: whatever request is served in a reachable state, every invoice the
\* handler persists (create, regenerate, add-payment, status update) is stored
\* with the status the 4-way rule gives at that instant: dueAmount <= 0 paid,
\* else amountPaid > 0 partially_paid, else dueDate < now overdue, else pending.
C2_StatusIsRuleAtSave ==
    /\ \A id \in RequestCustomerIds, month \in RequestMonths,
          year \in RequestYears, u \in UpdateExistingValues :
          \A out \in {GenerateCustomerNow(id, month, year, u)} :
             out.resp.code \in {200, 201} =>
                RuleHolds(out.store[out.resp.invoiceId])
    /\ \A month \in RequestMonths, year \in RequestYears,
          u \in UpdateExistingValues :
          \A out \in {GenerateBatchNow(month, year, u)} :
             \A i \in BatchPersisted(out.resp) : RuleHolds(out.store[i])
    /\ \A id \in InvoiceIds, amount \in RequestAmounts, req \in PaymentRequests :
          \A out \in {AddPaymentNow(id, amount, req)} :
             out.resp.code = 200 => RuleHolds(out.store[id])
    /\ \A id \in InvoiceIds, status \in RequestStatuses :
          \A out \in {UpdateStatusNow(id, status)} :
             out.resp.code = 200 => RuleHolds(out.store[id])

\* a state in which each of the four statuses is what some request persists
C2_Witness ==
    /\ \E id \in InvoiceIds, req \in PaymentRequests :
          \E out \in {AddPaymentNow(id, 1, req)} :
             out.resp.code = 200 /\ out.store[id].status = "partially_paid"
    /\ \E id \in InvoiceIds :
          \E out \in {UpdateStatusNow(id, "paid")} :
             out.resp.code = 200 /\ out.store[id].status = "overdue"
    /\ \E id \in RequestCustomerIds, month \in RequestMonths :
          \E out \in {GenerateCustomerNow(id, month, 2024, "true")} :
             out.resp.code = 200 /\ out.store[out.resp.invoiceId].status = "paid"

----------------------------------------------------------------------------
(* C3 *)

\* C3: no customer has two stored invoices whose [startDate, endDate]
\* intervals overlap.
C3_NoOverlappingInvoices ==
    \A i, j \in DOMAIN invoices :
        (i # j /\ invoices[i].customer = invoices[j].customer) =>
            \/ invoices[i].endDate < invoices[j].startDate
            \/ invoices[j].endDate < invoices[i].startDate

\* a customer with invoices for two adjacent months
C3_Witness ==
    \E i, j \in DOMAIN invoices :
        /\ i # j
        /\ invoices[i].customer = invoices[j].customer
        /\ invoices[j].startDate = invoices[i].endDate + 2

----------------------------------------------------------------------------
(* C4 *)

\* the customer has an invoice with startDate <= periodEnd and
\* endDate >= periodStart
HasInvoiceIn(id, year, month) ==
    \E i \in DOMAIN invoices :
        /\ invoices[i].customer = id
        /\ invoices[i].startDate <= Midnight(year, month, DaysInMonth(year, month))
        /\ invoices[i].endDate >= Midnight(year, month, 1)

IsDuplicatePeriod(r) ==
    r.code = 400 /\ r.msg = "Invoice already exists for this period"

\* C4: single-customer generate with updateExisting false (or omitted) for a
\* month in 1..12 answers DuplicatePeriod, carrying the id and number of an
\* overlapping invoice of the customer, exactly when the customer has an
\* invoice that overlaps the period, and then changes nothing; an invoice of
\* the adjacent month alone never triggers it.
C4_DuplicateExactlyOnOverlap ==
    \A id \in RequestCustomerIds, month \in RequestMonths \cap (1..12),
       year \in RequestYears, u \in {"false", "undefined"} :
        \A out \in {GenerateCustomerNow(id, month, year, u)} :
           /\ IsDuplicatePeriod(out.resp) <=> HasInvoiceIn(id, year, month)
           /\ IsDuplicatePeriod(out.resp) =>
                /\ out.store = invoices
                /\ out.nid = nextId
                /\ out.resp.invoiceId \in DOMAIN invoices
                /\ invoices[out.resp.invoiceId].customer = id
                /\ out.resp.invoiceNumber =
                       invoices[out.resp.invoiceId].invoiceNumber
           /\ (\A i \in DOMAIN invoices :
                  invoices[i].customer = id =>
                     \/ invoices[i].endDate = Midnight(year, month, 1) - 2
                     \/ invoices[i].startDate =
                            Midnight(year, month, DaysInMonth(year, month)) + 2)
              => ~IsDuplicatePeriod(out.resp)

\* customer 1 has a January invoice and none for February: generate without
\* update is refused as a duplicate for January and not for February
C4_Witness ==
    /\ IsDuplicatePeriod(GenerateCustomerNow(1, 1, 2024, "false").resp)
    /\ GenerateCustomerNow(1, 2, 2024, "false").resp.code = 201

----------------------------------------------------------------------------
(* C5 *)

\* the requests that make generate create an invoice, with the invoice created
CreatedNow ==
    {out.store[out.resp.invoiceId] :
        out \in {o \in {GenerateCustomerNow(id, month, year, u) :
                           id \in RequestCustomerIds, month \in RequestMonths,
                           year \in RequestYears, u \in UpdateExistingValues} :
                    o.resp.code = 201}}
    \cup UNION {{out.store[out.resp.created[k].invoiceId] :
                    k \in 1..Len(out.resp.created)} :
                out \in {GenerateBatchNow(month, year, u) :
                           month \in RequestMonths, year \in RequestYears,
                           u \in UpdateExistingValues}}

\* C5 as claimed: whenever generate creates an invoice (no overlapping invoice,
\* at least one record in the period), the invoice it persists has status
\* pending, whatever the period and the amounts.
C5_CreatedIsPending ==
    \A doc \in CreatedNow : doc.status = "pending"

\* C5 amended: the invoice generate creates is persisted with status pending
\* exactly when its totalAmount is positive and its dueDate is not earlier than
\* the instant of creation; with a total of zero it is persisted as paid, and
\* with a positive total and a dueDate already past as overdue.
C5_CreatedStatusByRule ==
    \A doc \in CreatedNow :
        /\ doc.amountPaid = 0
        /\ doc.status =
              (IF doc.totalAmount <= 0 THEN "paid"
               ELSE IF doc.dueDate < Now THEN "overdue"
               ELSE "pending")

\* a state in which one creation is persisted pending and another paid
C5_Witness ==
    /\ \E doc \in CreatedNow : doc.status = "pending"
    /\ \E doc \in CreatedNow : doc.status = "paid"
    /\ DOMAIN invoices = {}

----------------------------------------------------------------------------
(* C6 *)

----------------------------------------------------------------------------
(* C7 *)

\* the payment requests whose method the schema accepts
ValidPaymentRequests ==
    {req \in PaymentRequests : req.paymentMethod \in {"cash", "online", "undefined"}}

----------------------------------------------------------------------------
(* C8 *)

\* an accepted add-payment on invoice i leads from this state to the next
AcceptedPaymentStep(i) ==
    \E amount \in RequestAmounts, req \in PaymentRequests :
        \E out \in {AddPaymentNow(i, amount, req)} :
           out.resp.code = 200 /\ invoices' = out.store

\* C8: in every step, the payments of an invoice stay as they are or, in an
\* accepted add-payment on that invoice, gain exactly one entry at the end; an
\* invoice with payments stays in the store.
C8_LedgerAppendOnly ==
    [][\A i \in DOMAIN invoices :
          /\ invoices[i].payments # <<>> => i \in DOMAIN invoices'
          /\ i \in DOMAIN invoices' =>
                \/ invoices'[i].payments = invoices[i].payments
                \/ /\ Len(invoices'[i].payments) = Len(invoices[i].payments) + 1
                   /\ SubSeq(invoices'[i].payments, 1, Len(invoices[i].payments))
                         = invoices[i].payments
                   /\ AcceptedPaymentStep(i)
                   /\ \A j \in DOMAIN invoices \ {i} :
                         j \in DOMAIN invoices'
                         /\ invoices'[j].payments = invoices[j].payments]_vars

\* an invoice whose ledger was extended: two payments with different ids
C8_Witness ==
    \E i \in DOMAIN invoices :
        /\ Len(invoices[i].payments) = 2
        /\ invoices[i].payments[1].transactionId
              # invoices[i].payments[2].transactionId

----------------------------------------------------------------------------
(* C9 *)

\* the transaction ids recorded on the invoices of customer c
RecordedIds(c) ==
    UNION {{invoices[i].payments[k].transactionId :
               k \in 1..Len(invoices[i].payments)} :
           i \in {i \in DOMAIN invoices : invoices[i].customer = c}}

\* the sequences recorded for customer c under the prefix year_customerNo_
RecordedSequences(c, year) ==
    {t[3] : t \in {t \in RecordedIds(c) :
                      /\ Len(t) >= 3 /\ t[1] = year
                      /\ t[2] = Customer[c].customerNo /\ t[3] \in Nat}}

\* C9: a generated transaction id is year_customerNo_n with n one more than
\* the largest sequence recorded under that prefix on any invoice of the
\* customer (1 when there is none); so when the sequences recorded so far are
\* 1..k the new one is k + 1, and the new id differs from every id recorded
\* for the customer.
C9_NextSequenceOverAllInvoices ==
    \A id \in DOMAIN invoices, amount \in RequestAmounts, req \in PaymentRequests :
        \A out \in {AddPaymentNow(id, amount, req)} :
           (/\ out.resp.code = 200
            /\ req.transactionId = NoTransactionId
            /\ req.paymentMethod # "cash")
           => LET c == invoices[id].customer
                  S == RecordedSequences(c, Clock[clk].y)
                  new == out.store[id].payments[Len(out.store[id].payments)]
                             .transactionId
              IN /\ Len(new) = 3
                 /\ new[1] = Clock[clk].y
                 /\ new[2] = Customer[c].customerNo
                 /\ \A n \in S : n < new[3]
                 /\ new[3] = 1 \/ new[3] - 1 \in S
                 /\ S = {} => new[3] = 1
                 /\ S = 1..Cardinality(S) => new[3] = Cardinality(S) + 1
                 /\ new \notin RecordedIds(c)

\* a customer with two invoices: the first generated id of the year is on one,
\* the second on the other
C9_Witness ==
    \E i, j \in DOMAIN invoices :
        /\ i # j
        /\ invoices[i].customer = invoices[j].customer
        /\ \E y \in {Clock[k].y : k \in 1..Len(Clock)} :
              /\ invoices[i].payments =
                    << [amount |-> 1, paymentMethod |-> "online",
                        transactionId |->
                            <<y, Customer[invoices[i].customer].customerNo, 1>>] >>
              /\ Len(invoices[j].payments) = 1
              /\ invoices[j].payments[1].transactionId =
                    <<y, Customer[invoices[j].customer].customerNo, 2>>

----------------------------------------------------------------------------
(* C10 *)

\* C10 as claimed: a payment stored with method cash for a request that
\* supplied no transactionId (also one that omitted paymentMethod) carries no
\* transaction id, a request for another method gets a generated one, and a
\* supplied transactionId is stored unchanged.
C10_NoIdForCashPayments ==
    \A id \in DOMAIN invoices, amount \in RequestAmounts, req \in PaymentRequests :
        \A out \in {AddPaymentNow(id, amount, req)} :
           out.resp.code = 200 =>
              LET p == out.store[id].payments[Len(out.store[id].payments)]
              IN IF req.transactionId # NoTransactionId
                 THEN p.transactionId = req.transactionId
                 ELSE (p.paymentMethod = "cash")
                         <=> (p.transactionId = NoTransactionId)

----------------------------------------------------------------------------
(* C11 *)

DeleteNow(id) == Delete(invoices, id)

----------------------------------------------------------------------------
(* C12 *)

\* the number of entries a batch response lists for customer c in all buckets
BucketEntries(r, c) ==
    Cardinality({k \in 1..Len(r.created) : r.created[k].customer = c})
    + Cardinality({k \in 1..Len(r.updated) : r.updated[k].customer = c})
    + Cardinality({k \in 1..Len(r.failed) : r.failed[k].customer = c})

\* C12: a batch request that passes the up-front checks (month and year given,
\* guard not refusing, month in 1..12) is answered 200 with every active
\* customer in exactly one of created, updated, failed, no inactive customer
\* in any bucket, and totalProcessed = created + updated + failed = the number
\* of active customers, whatever happened to the single customers.
C12_BatchBucketsPartitionActive ==
    \A month \in RequestMonths, year \in RequestYears,
       u \in UpdateExistingValues :
        \A out \in {GenerateBatchNow(month, year, u)} :
           /\ (month \in 1..12 /\ ~GuardRefuses(Clock[clk], year, month))
                 <=> out.resp.code = 200
           /\ out.resp.code = 200 =>
                 /\ \A c \in CustomerIds :
                       BucketEntries(out.resp, c) =
                          (IF Customer[c].isActive THEN 1 ELSE 0)
                 /\ out.resp.totalProcessed =
                       Cardinality({c \in CustomerIds : Customer[c].isActive})
                 /\ out.resp.totalProcessed =
                       Len(out.resp.created) + Len(out.resp.updated)
                       + Len(out.resp.failed)

\* a state in which one batch request creates for one customer after failing
\* for another, a second updates, and a third fails for every customer
C12_Witness ==
    /\ \E month \in RequestMonths, u \in UpdateExistingValues :
          \E out \in {GenerateBatchNow(month, 2024, u)} :
             /\ out.resp.code = 200
             /\ Len(out.resp.failed) = 1 /\ Len(out.resp.created) = 1
             /\ out.resp.failed[1].customer < out.resp.created[1].customer
    /\ \E month \in RequestMonths, u \in UpdateExistingValues :
          \E out \in {GenerateBatchNow(month, 2024, u)} :
             out.resp.code = 200 /\ out.resp.updated # <<>>
    /\ \E month \in RequestMonths, u \in UpdateExistingValues :
          \E out \in {GenerateBatchNow(month, 2024, u)} :
             out.resp.code = 200 /\ Len(out.resp.failed) = 2

----------------------------------------------------------------------------
(* C13 *)

\* the target is the current calendar month and more than two days of it
\* remain after today
BeforeMonthEnd(year, month) ==
    /\ month = Clock[clk].m
    /\ year = Clock[clk].y
    /\ month \in 1..12
    /\ Clock[clk].d < DaysInMonth(year, month) - 2

\* C13: a batch request for the current month that the guard refuses is
\* answered 400 before any customer is processed: the store is as it was, no
\* _id is consumed and the response lists no customer in any bucket.
C13_BatchRefusedBeforeAnyCustomer ==
    \A month \in RequestMonths, year \in RequestYears,
       u \in UpdateExistingValues :
        BeforeMonthEnd(year, month) =>
           \A out \in {GenerateBatchNow(month, year, u)} :
              /\ out.resp.code = 400
              /\ out.store = invoices
              /\ out.nid = nextId
              /\ out.resp.created = <<>>
              /\ out.resp.updated = <<>>
              /\ out.resp.failed = <<>>
              /\ out.resp.totalProcessed = 0

\* 20 February: a batch for February is refused although one customer has a
\* February record and no February invoice, and another has an invoice
C13_Witness ==
    /\ BeforeMonthEnd(2024, 2)
    /\ GenerateBatchNow(2, 2024, "true").resp.code = 400
    /\ RecordDates(records, 1, PeriodStart(2024, 2), PeriodEnd(2024, 2)) # <<>>
    /\ ExistingInvoice(invoices, 1, PeriodStart(2024, 2), PeriodEnd(2024, 2)) = 0
    /\ DOMAIN invoices # {}

----------------------------------------------------------------------------
(* C14 *)

\* the guard's refusal, which carries the remaining-days count
IsGuardRefusal(r) ==
    r.code = 400 /\ r.msg = "Cannot generate for the current month"

\* the last day of January and February, from the calendar
LastDayOf(year, month) ==
    IF month = 1 THEN 31 ELSE IF year % 4 = 0 THEN 29 ELSE 28

\* the last days of January and February of the clock's years
MonthEndDays ==
    {[y |-> y, m |-> m, d |-> d] :
        y \in {2024, 2025}, m \in {1, 2}, d \in 25..31}
    \ {t \in [y : {2024, 2025}, m : {2}, d : 25..31] : t.d > LastDayOf(t.y, t.m)}

\* C14: single-customer generate (whatever updateExisting) is answered by the
\* guard's 400, carrying lastDayOfMonth - currentDay, exactly when the target
\* is the current calendar month and currentDay < lastDayOfMonth - 2; then the
\* store is unchanged.  On the last three days of the month, and for any other
\* month or year, the guard lets the request pass.
C14_GuardRefusesExactlyBeforeMonthEnd ==
    /\ \A id \in RequestCustomerIds, month \in RequestMonths,
          year \in RequestYears, u \in UpdateExistingValues :
          \A out \in {GenerateCustomerNow(id, month, year, u)} :
             /\ IsGuardRefusal(out.resp) <=> BeforeMonthEnd(year, month)
             /\ IsGuardRefusal(out.resp) =>
                   /\ out.resp.remaining =
                         LastDayOf(year, month) - Clock[clk].d
                   /\ out.resp.remaining > 2
                   /\ out.store = invoices
                   /\ out.nid = nextId
    /\ \A today \in MonthEndDays, year \in {2024, 2025}, month \in {1, 2} :
          GuardRefuses(today, year, month)
             <=> /\ month = today.m /\ year = today.y
                 /\ today.d < LastDayOf(year, month) - 2

\* 20 February: generate for February is refused with 9 days remaining,
\* generate for January regenerates the customer's January invoice
C14_Witness ==
    /\ IsGuardRefusal(GenerateCustomerNow(1, 2, 2024, "true").resp)
    /\ GenerateCustomerNow(1, 2, 2024, "true").resp.remaining = 9
    /\ GenerateCustomerNow(1, 1, 2024, "true").resp.code = 200

----------------------------------------------------------------------------
(* C17 *)

\* new differs from old in no field but items, totalQuantity, totalAmount,
\* endDate, dueAmount and status
OnlyRegeneratedFieldsDiffer(old, new) ==
    new = [old EXCEPT !.items = new.items,
                      !.totalQuantity = new.totalQuantity,
                      !.totalAmount = new.totalAmount,
                      !.endDate = new.endDate,
                      !.dueAmount = new.dueAmount,
                      !.status = new.status]

\* the customer has an invoice overlapping the month and a record in it
CanRegenerate(c, year, month) ==
    /\ c \in CustomerIds
    /\ month \in 1..12
    /\ ~GuardRefuses(Clock[clk], year, month)
    /\ ExistingInvoice(invoices, c, PeriodStart(year, month),
                       PeriodEnd(year, month)) # 0
    /\ RecordDates(records, c, PeriodStart(year, month),
                   PeriodEnd(year, month)) # <<>>

\* C17: regenerate (an overlapping invoice exists, updateExisting true,
\* records exist) inserts no invoice, leaves every other invoice as it was and
\* changes of the existing one only items, totalQuantity, totalAmount, endDate,
\* dueAmount and status; invoiceNumber, customer, startDate, dueDate,
\* amountPaid and payments stay.  The same holds for every invoice a batch
\* reports as updated.
C17_RegenerateFrame ==
    /\ \A id \in RequestCustomerIds, month \in RequestMonths,
          year \in RequestYears :
          CanRegenerate(id, year, month) =>
             \A out \in {GenerateCustomerNow(id, month, year, "true")} :
                /\ out.resp.code = 200
                /\ out.nid = nextId
                /\ DOMAIN out.store = DOMAIN invoices
                /\ out.resp.invoiceId \in DOMAIN invoices
                /\ \A i \in DOMAIN invoices :
                      IF i = out.resp.invoiceId
                      THEN OnlyRegeneratedFieldsDiffer(invoices[i], out.store[i])
                      ELSE out.store[i] = invoices[i]
    /\ \A month \in RequestMonths, year \in RequestYears :
          \A out \in {GenerateBatchNow(month, year, "true")} :
             /\ \A c \in CustomerIds :
                   (Customer[c].isActive /\ CanRegenerate(c, year, month))
                      => \E k \in 1..Len(out.resp.updated) :
                            out.resp.updated[k].customer = c
             /\ \A i \in DOMAIN invoices :
                   /\ i \in DOMAIN out.store
                   /\ IF \E k \in 1..Len(out.resp.updated) :
                            out.resp.updated[k].invoiceId = i
                      THEN OnlyRegeneratedFieldsDiffer(invoices[i], out.store[i])
                      ELSE out.store[i] = invoices[i]

\* an invoice with a payment whose records have changed since: regenerating
\* it changes its total and keeps its payment
C17_Witness ==
    \E id \in CustomerIds, month \in {1, 2} :
        /\ CanRegenerate(id, 2024, month)
        /\ \E out \in {GenerateCustomerNow(id, month, 2024, "true")} :
              /\ out.resp.code = 200
              /\ invoices[out.resp.invoiceId].payments # <<>>
              /\ out.store[out.resp.invoiceId].totalAmount
                    # invoices[out.resp.invoiceId].totalAmount
              /\ out.store[out.resp.invoiceId].status
                    # invoices[out.resp.invoiceId].status

----------------------------------------------------------------------------
(* C18 *)

\* the invoices of customer c in store that overlap the month
InvoicesOfPeriod(store, c, year, month) ==
    {i \in DOMAIN store :
        /\ store[i].customer = c
        /\ store[i].startDate <= PeriodEnd(year, month)
        /\ store[i].endDate >= PeriodStart(year, month)}

\* C18: when generate with updateExisting true has created or updated the
\* invoice of a customer and period, the same request repeated at once, the
\* records being the same, updates that invoice, leaves its items,
\* totalQuantity and totalAmount as the first call left them, and there is
\* still exactly one invoice of the customer for the period.
C18_RegenerateIdempotent ==
    \A id \in RequestCustomerIds, month \in RequestMonths,
       year \in RequestYears :
        \A first \in {GenerateCustomerNow(id, month, year, "true")} :
           first.resp.code \in {200, 201} =>
              \A second \in {GenerateCustomer(first.store, first.nid, records,
                                              Clock[clk], Now, id, month, year,
                                              "true")} :
                 LET i == first.resp.invoiceId IN
                 /\ second.resp.code = 200
                 /\ second.resp.invoiceId = i
                 /\ second.nid = first.nid
                 /\ second.store[i].items = first.store[i].items
                 /\ second.store[i].totalQuantity = first.store[i].totalQuantity
                 /\ second.store[i].totalAmount = first.store[i].totalAmount
                 /\ InvoicesOfPeriod(second.store, id, year, month) = {i}

\* a state in which a first call creates the invoice of one customer, and a
\* first call for another customer changes the totals of its invoice
C18_Witness ==
    /\ \E id \in CustomerIds, month \in {1, 2} :
          GenerateCustomerNow(id, month, 2024, "true").resp.code = 201
    /\ \E id \in CustomerIds, month \in {1, 2} :
          \E out \in {GenerateCustomerNow(id, month, 2024, "true")} :
             /\ out.resp.code = 200
             /\ out.store[out.resp.invoiceId].totalAmount
                   # invoices[out.resp.invoiceId].totalAmount

----------------------------------------------------------------------------
(* C19 *)

\* C19 as claimed: a status update with a status of the enum on an existing
\* invoice is answered 200 and the invoice is stored with that status; a
\* status outside the enum is answered 400 and the store is unchanged.
C19_StatusIsForceSet ==
    \A id \in DOMAIN invoices, status \in RequestStatuses :
        \A out \in {UpdateStatusNow(id, status)} :
           IF status \in StatusEnum
           THEN out.resp.code = 200 /\ out.store[id].status = status
           ELSE out.resp.code = 400 /\ out.store = invoices

----------------------------------------------------------------------------
(* C15 *)

\* C15 as claimed: with requests served one at a time, every invoice created
\* has a counter strictly greater than the counter of every invoice created
\* before it, deleted ones included, and no invoice number is issued twice.
C15_CounterMonotonicOverDeletions ==
    \A i, j \in DOMAIN issued :
        i < j => /\ CounterOf(issued[i]) < CounterOf(issued[j])
                 /\ issued[i] # issued[j]

----------------------------------------------------------------------------
(* C16 *)

\* C16: in every reachable state, however generate calls (single and batch,
\* for the same or for different customers) interleave at their awaits, and
\* whatever is deleted in between, no two stored invoices have the same
\* invoice number.
C16_InvoiceNumbersUnique ==
    \A i, j \in DOMAIN invoices :
        i # j => invoices[i].invoiceNumber # invoices[j].invoiceNumber

\* two calls have read the same latest invoice: one has created its invoice,
\* the other is about to create one with the same number, for another customer
C16_Witness ==
    \E p \in Calls, i \in DOMAIN invoices :
        /\ calls[p].pc = "insert"
        /\ calls[p].number = invoices[i].invoiceNumber
        /\ Head(calls[p].queue) # invoices[i].customer
        /\ \E q \in Calls \ {p} : calls[q].kind = "batch"

----------------------------------------------------------------------------
(* C20 *)

\* call p completes its Invoice.create in this step
CreateStepOf(p) ==
    calls[p].pc = "insert" /\ calls'[p] # calls[p]

\* C20: a generate call that has taken the create branch persists its invoice
\* whenever its number is free, whatever has been stored for the customer and
\* period since it looked for an existing invoice: nothing between the read
\* and the create tests the period again.  Two calls for the same customer
\* and period that both read before either creates therefore both persist
\* (the state C20_Witness describes).
C20_CreateIgnoresLaterOverlap ==
    [][\A p \in Calls :
          (CreateStepOf(p)
           /\ ~\E i \in DOMAIN invoices :
                 invoices[i].invoiceNumber = calls[p].number)
          => /\ DOMAIN invoices' = DOMAIN invoices \cup {nextId}
             /\ nextId \notin DOMAIN invoices
             /\ invoices'[nextId].customer = Head(calls[p].queue)
             /\ invoices'[nextId].startDate =
                   PeriodStart(calls[p].year, calls[p].month)
             /\ invoices'[nextId].endDate =
                   PeriodEnd(calls[p].year, calls[p].month)
             /\ \A i \in DOMAIN invoices : invoices'[i] = invoices[i]]_vars

\* two stored invoices of one customer for the same period, with different
\* numbers, no call being in progress any more
C20_Witness ==
    /\ \A p \in Calls : calls[p].pc = "idle"
    /\ \E i, j \in DOMAIN invoices :
          /\ i # j
          /\ invoices[i].customer = invoices[j].customer
          /\ invoices[i].startDate <= invoices[j].endDate
          /\ invoices[i].endDate >= invoices[j].startDate
          /\ invoices[i].invoiceNumber # invoices[j].invoiceNumber

----------------------------------------------------------------------------
(* C21 *)

\* call p completes its addPayment in this step
SavePaymentStepOf(p) ==
    calls[p].pc = "push" /\ calls'[p] # calls[p]

\* C21: an add-payment call persists its payment with the transaction id it
\* computed when it scanned the customer's invoices, whatever ids have been
\* stored for the customer since: nothing between the scan and the save tests
\* the id again.  Two calls for one customer that both scan before either
\* saves therefore both persist the same id (the state C21_Witness describes).
C21_SaveKeepsScannedId ==
    [][\A p \in Calls :
          (/\ SavePaymentStepOf(p)
           /\ calls[p].loaded.id \in DOMAIN invoices
           /\ StoredMethod(calls[p].paymentMethod) \in {"cash", "online"})
          => LET id == calls[p].loaded.id IN
             /\ invoices'[id].payments =
                   Append(invoices[id].payments,
                          [amount |-> calls[p].amount,
                           paymentMethod |-> StoredMethod(calls[p].paymentMethod),
                           transactionId |-> calls[p].transactionId])
             /\ \A j \in DOMAIN invoices \ {id} :
                   j \in DOMAIN invoices' /\ invoices'[j] = invoices[j]]_vars

\* no call is in progress, and two payments of one customer carry the same
\* generated transaction id, the first of the year
C21_Witness ==
    /\ \A p \in Calls : calls[p].pc = "idle"
    /\ \E i, j \in DOMAIN invoices :
          \E k \in 1..Len(invoices[i].payments),
             l \in 1..Len(invoices[j].payments) :
             /\ invoices[i].customer = invoices[j].customer
             /\ (i # j \/ k # l)
             /\ invoices[i].payments[k].transactionId =
                   <<Clock[clk].y, Customer[invoices[i].customer].customerNo, 1>>
             /\ invoices[j].payments[l].transactionId =
                   invoices[i].payments[k].transactionId
             /\ invoices[i].payments[k].paymentMethod = "online"
             /\ invoices[j].payments[l].paymentMethod = "online"

----------------------------------------------------------------------------
(* C22 *)

\* the records on file for customer c dated from the first through the last
\* calendar day of the month
RecordsInPeriod(c, year, month) ==
    {k \in DOMAIN records :
        /\ k[1] = c
        /\ records[k].present
        /\ k[2] >= Midnight(year, month, 1)
        /\ k[2] <= Midnight(year, month, DaysInMonth(year, month)) + 1}

RECURSIVE RecordQuantity(_)
RecordQuantity(K) ==
    IF K = {} THEN 0
    ELSE LET k == CHOOSE k \in K : TRUE
         IN records[k].totalQuantity + RecordQuantity(K \ {k})

RECURSIVE RecordAmount(_)
RecordAmount(K) ==
    IF K = {} THEN 0
    ELSE LET k == CHOOSE k \in K : TRUE
         IN records[k].totalAmount + RecordAmount(K \ {k})

\* the items of doc are the records of the customer in the month, one item
\* per record, by ascending date, and the totals are the sums over them
ItemsMatchRecords(doc, c, year, month) ==
    LET K == RecordsInPeriod(c, year, month) IN
    /\ doc.customer = c
    /\ Len(doc.items) = Cardinality(K)
    /\ \A n \in 1..(Len(doc.items) - 1) :
          doc.items[n].date < doc.items[n + 1].date
    /\ \A k \in K :
          \E n \in 1..Len(doc.items) :
             doc.items[n] =
                [date |-> k[2],
                 morningQuantity |-> records[k].morningQuantity,
                 eveningQuantity |-> records[k].eveningQuantity,
                 dailyQuantity |-> records[k].totalQuantity,
                 price |-> records[k].price,
                 dailyAmount |-> records[k].totalAmount]
    /\ doc.totalQuantity = RecordQuantity(K)
    /\ doc.totalAmount = RecordAmount(K)

\* C22: the invoice a successful generate persists (single or batch, create
\* or update) has its items in ascending date order, one for each delivery
\* record of that customer dated from the first through the last calendar day
\* of the month and no other, and totalQuantity and totalAmount are the sums
\* of the records' total quantities and total amounts.
C22_ItemsAreTheRecordsOfThePeriod ==
    /\ \A id \in RequestCustomerIds, month \in RequestMonths,
          year \in RequestYears, u \in UpdateExistingValues :
          \A out \in {GenerateCustomerNow(id, month, year, u)} :
             out.resp.code \in {200, 201} =>
                ItemsMatchRecords(out.store[out.resp.invoiceId], id, year, month)
    /\ \A month \in RequestMonths, year \in RequestYears,
          u \in UpdateExistingValues :
          \A out \in {GenerateBatchNow(month, year, u)} :
             /\ \A k \in 1..Len(out.resp.created) :
                   ItemsMatchRecords(out.store[out.resp.created[k].invoiceId],
                                     out.resp.created[k].customer, year, month)
             /\ \A k \in 1..Len(out.resp.updated) :
                   ItemsMatchRecords(out.store[out.resp.updated[k].invoiceId],
                                     out.resp.updated[k].customer, year, month)

\* customer 1 has a record on the first and on the last day of January and
\* of February, of different quantities, and customer 2 one in January: a
\* generate for January creates an invoice of two items, and one for February
\* updates the stored invoice of two items
C22_Witness ==
    /\ \A k \in DOMAIN records : records[k].present
    /\ DOMAIN records = AggregateKeys
    /\ records[<<1, Midnight(2024, 1, 1)>>] # records[<<1, Midnight(2024, 1, 31)>>]
    /\ \E out \in {GenerateCustomerNow(1, 1, 2024, "false")} :
          /\ out.resp.code = 201
          /\ Len(out.store[out.resp.invoiceId].items) = 2
    /\ \E out \in {GenerateCustomerNow(1, 2, 2024, "true")} :
          /\ out.resp.code = 200
          /\ Len(out.store[out.resp.invoiceId].items) = 2
          /\ out.store[out.resp.invoiceId].items[2].date = Midnight(2024, 2, 29)

----------------------------------------------------------------------------
(* C23 *)

IsNoRecordsFound(r) ==
    r.code = 404 /\ r.msg = "No records found for this period"

\* the invoices of customer c are in store what they are now, and no more
InvoicesOfCustomerKept(store, c) ==
    /\ \A i \in DOMAIN invoices :
          invoices[i].customer = c => i \in DOMAIN store /\ store[i] = invoices[i]
    /\ \A i \in DOMAIN store :
          store[i].customer = c => i \in DOMAIN invoices

----------------------------------------------------------------------------
(* C24 *)

\* C24 as claimed: in every reachable state, also when time has passed since
\* the invoice was last saved, the stored status of every invoice is what the
\* 4-way rule gives for its dueAmount, amountPaid, dueDate and the current
\* instant.  (getInvoiceById answers the stored document as it is.)
C24_StatusFollowsRuleAsTimePasses ==
    \A i \in DOMAIN invoices : RuleHolds(invoices[i])

----------------------------------------------------------------------------
(* C25 *)

\* doc is a fresh invoice of customer c for the month
FreshInvoiceOf(doc, c, year, month) ==
    /\ doc.customer = c
    /\ doc.dueAmount = doc.totalAmount
    /\ doc.amountPaid = 0
    /\ doc.payments = <<>>
    /\ doc.startDate = Midnight(year, month, 1)
    /\ doc.endDate = Midnight(year, month, LastDayOf(year, month))
    /\ doc.dueDate = doc.endDate + 2 * 15

\* C25: the invoice a generate request creates (single or batch) for a month
\* has dueAmount = totalAmount, amountPaid = 0, no payments, startDate the
\* first and endDate the last calendar day of the month (midnight), and
\* dueDate 15 days after endDate.
C25_CreatedInvoiceFields ==
    /\ \A id \in RequestCustomerIds, month \in RequestMonths,
          year \in RequestYears, u \in UpdateExistingValues :
          \A out \in {GenerateCustomerNow(id, month, year, u)} :
             out.resp.code = 201 =>
                /\ out.resp.invoiceId \notin DOMAIN invoices
                /\ FreshInvoiceOf(out.store[out.resp.invoiceId], id, year, month)
    /\ \A month \in RequestMonths, year \in RequestYears,
          u \in UpdateExistingValues :
          \A out \in {GenerateBatchNow(month, year, u)} :
             \A k \in 1..Len(out.resp.created) :
                /\ out.resp.created[k].invoiceId \notin DOMAIN invoices
                /\ FreshInvoiceOf(out.store[out.resp.created[k].invoiceId],
                                  out.resp.created[k].customer, year, month)

\* an invoice created for leap-year February: it ends on the 29th and falls
\* due on 15 March
C25_Witness ==
    \E i \in DOMAIN invoices :
        /\ invoices[i].payments = <<>>
        /\ invoices[i].totalAmount > 0
        /\ invoices[i].startDate = Midnight(2024, 2, 1)
        /\ invoices[i].endDate = Midnight(2024, 2, 29)
        /\ invoices[i].dueDate = Midnight(2024, 3, 15)

----------------------------------------------------------------------------
(* C26 *)

\* C26 as claimed: every stored invoice has dueAmount >= 0 and
\* amountPaid <= totalAmount, also once a regenerate has lowered the total of
\* an invoice that had taken payments.
C26_NeverOverpaid ==
    \A i \in DOMAIN invoices :
        /\ invoices[i].dueAmount >= 0
        /\ invoices[i].amountPaid <= invoices[i].totalAmount

----------------------------------------------------------------------------
(* C29 *)

\* what the single-customer handler decided, from its response
SingleDecision(r) ==
    IF r.code = 201 THEN "create"
    ELSE IF r.code = 200 THEN "update"
    ELSE IF IsDuplicatePeriod(r) THEN "duplicate"
    ELSE IF IsNoRecordsFound(r) THEN "no records"
    ELSE "other"

\* what the batch decided for customer c, from its response
BatchDecision(r, c) ==
    IF \E k \in 1..Len(r.created) : r.created[k].customer = c THEN "create"
    ELSE IF \E k \in 1..Len(r.updated) : r.updated[k].customer = c THEN "update"
    ELSE IF \E k \in 1..Len(r.failed) :
               /\ r.failed[k].customer = c
               /\ r.failed[k].reason = "Invoice already exists for this period"
    THEN "duplicate"
    ELSE IF \E k \in 1..Len(r.failed) :
               /\ r.failed[k].customer = c
               /\ r.failed[k].reason = "No records found for this period"
    THEN "no records"
    ELSE "other"

\* the invoices of customer c in store, their _id and number left aside (a
\* batch may have created invoices for other customers first)
InvoiceStateOf(store, c) ==
    {[store[i] EXCEPT !.id = 0, !.invoiceNumber = <<>>] :
        i \in {i \in DOMAIN store : store[i].customer = c}}

\* both handlers decide alike for every active customer, for the
\* updateExisting values of U
HandlersAgreeOn(U) ==
    \A month \in RequestMonths \cap (1..12), year \in RequestYears, u \in U :
        ~GuardRefuses(Clock[clk], year, month) =>
           \A batch \in {GenerateBatchNow(month, year, u)} :
              \A c \in {c \in CustomerIds : Customer[c].isActive} :
                 \A single \in {GenerateCustomerNow(c, month, year, u)} :
                    /\ SingleDecision(single.resp) = BatchDecision(batch.resp, c)
                    /\ InvoiceStateOf(single.store, c)
                          = InvoiceStateOf(batch.store, c)

\* C29 as claimed: for the same active customer, month, year, store and
\* updateExisting, the single-customer handler and the batch take the same
\* decision for the customer (create, update, duplicate, no records) and
\* leave the customer's invoices in the same state, for every updateExisting
\* a caller can send: true, false, omitted, and falsy values such as null.
C29_SingleAndBatchAgree == HandlersAgreeOn(UpdateExistingValues)

----------------------------------------------------------------------------
(* C30 *)

Settled == {"partially_paid", "paid"}

----------------------------------------------------------------------------
(* C27 *)

\* the sum of the amounts of a sequence of payments
RECURSIVE SumPayments(_)
SumPayments(payments) ==
    IF payments = <<>> THEN 0
    ELSE payments[1].amount + SumPayments(Tail(payments))

\* C27 as claimed: in every reachable state, also when add-payment calls on
\* one invoice interleave at their load and their save, the amountPaid of
\* every stored invoice is the sum of the amounts of its recorded payments.
C27_AmountPaidIsSumOfPayments ==
    \A i \in DOMAIN invoices :
        invoices[i].amountPaid = SumPayments(invoices[i].payments)

----------------------------------------------------------------------------
(* C28 *)

\* C28 as claimed: once a regenerate and an add-payment on one invoice that
\* interleaved at their loads and saves have both completed (no call is in
\* progress), the stored invoice holds the payment, its amountPaid is
\* positive, dueAmount = totalAmount - amountPaid and the status is the one
\* the rule gives.
C28_RegenerateAndPaymentBothKept ==
    (\A p \in Calls : calls[p].pc = "idle") =>
       \A i \in DOMAIN invoices :
          /\ invoices[i].payments # <<>> => invoices[i].amountPaid > 0
          /\ invoices[i].dueAmount
                = invoices[i].totalAmount - invoices[i].amountPaid
          /\ RuleHolds(invoices[i])

====
